---------------------------- MODULE Spec2Model ----------------------------
(***************************************************************************)
(* A model of the arogya-setu frontend (React): the App router and the     *)
(* pages it mounts, each with its component state, its event handlers and  *)
(* what it renders.                                                        *)
(*   DrugCheckerPage        src/src/main.jsx:14-331                        *)
(*   MultiPrescriptionPage  src/src/main.jsx:1123-1446                     *)
(*   VaultPage              src/unnamed/part_002                           *)
(*   ScanPage               src/src/pages/ScanPage.jsx                     *)
(*   HomePage (StatCard)    src/src/main.jsx:477-496                       *)
(*   App                    src/unnamed/part_001                           *)
(* One page is mounted at a time; the state of a page that is not mounted  *)
(* does not exist, and is held at its initial value here.                  *)
(*                                                                         *)
(* Strings are TLA+ strings; TLC evaluates Len, Head, Tail, SubSeq and \o  *)
(* on them, which is what the JavaScript string methods are modelled with. *)
(***************************************************************************)
EXTENDS Naturals, Sequences, FiniteSets, TLC

VARIABLES
    drugs,            \* useState([...]) main.jsx:128, the list of drug chips
    input,            \* useState("")    main.jsx:129, the text of the input box
    showSuggestions,  \* useState(false) main.jsx:130
    checked,          \* useState(false) main.jsx:131, the result section is rendered
    cardOpen,         \* useState(false) main.jsx:72, one per InteractionCard (key i)
    page,             \* useState(getPage(...)) part_001:22, the page App renders
    hist,             \* the session history of the document: the URL of each entry
    hidx,             \* the current entry; pathname(hist[hidx]) is window.location.pathname
    statTarget,       \* numVal of the StatCard, main.jsx:479 (0: none is mounted)
    statTicks,        \* the interval callbacks run so far; start is statTicks * step
    statCount,        \* useState(0) main.jsx:478
    statTimer,        \* the setInterval of main.jsx:486 is active
    multiState,       \* useState("upload") main.jsx:1172 (MultiPrescriptionPage state)
    search,           \* useState("")        part_002:146
    compareIds,       \* useState([])        part_002:147
    tab,              \* useState("history") part_002:148
    vaultExpanded,    \* useState(false) part_002:56, one per VaultCard (key item.id)
    scanState,        \* useState("upload") ScanPage.jsx:126 (ScanPage state)
    dragOver,         \* useState(false)    ScanPage.jsx:127
    scanTimer,        \* the setTimeout of ScanPage.jsx:131 is pending
    staleTimers,      \* pending timeouts of ScanPages that have unmounted since
    medExpanded       \* useState(false) ScanPage.jsx:74, one per MedicineCard (key med.id)

checkerVars == <<drugs, input, showSuggestions, checked, cardOpen>>
multiVars   == <<multiState>>
vaultVars   == <<search, compareIds, tab, vaultExpanded>>
scanVars    == <<scanState, dragOver, scanTimer, staleTimers, medExpanded>>
routerVars  == <<page, hist, hidx>>
homeVars    == <<statTarget, statTicks, statCount, statTimer>>

vars == <<checkerVars, routerVars, homeVars, multiVars, vaultVars, scanVars>>

---------------------------------------------------------------------------
(* Bounds of the model.                                                    *)

\* The drug list is capped: addDrug of a new name is taken only below it.
MaxDrugs == 6

\* The texts a user types into the input box (any string in the code).
\* "met" is a partial, lower-case match of a database name that is listed
\* initially, "aspirin" a full lower-case match of one that is not, and
\* " Aspirin" an untrimmed text that matches none.
TypedTexts == {"", "met", "aspirin", " Aspirin"}

---------------------------------------------------------------------------
(* JavaScript string and array methods, as the code uses them.             *)

\* The lower-case form of each ASCII upper-case letter.
LowerTable ==
    [A |-> "a", B |-> "b", C |-> "c", D |-> "d", E |-> "e", F |-> "f",
     G |-> "g", H |-> "h", I |-> "i", J |-> "j", K |-> "k", L |-> "l",
     M |-> "m", N |-> "n", O |-> "o", P |-> "p", Q |-> "q", R |-> "r",
     S |-> "s", T |-> "t", U |-> "u", V |-> "v", W |-> "w", X |-> "x",
     Y |-> "y", Z |-> "z"]

\* One character of String.prototype.toLowerCase (ASCII letters).
LowerChar(c) == IF c \in DOMAIN LowerTable THEN LowerTable[c] ELSE c

RECURSIVE toLowerCase(_)
\* String.prototype.toLowerCase
toLowerCase(s) ==
    IF Len(s) = 0 THEN "" ELSE LowerChar(SubSeq(s, 1, 1)) \o toLowerCase(Tail(s))

\* String.prototype.includes: sub occurs in s as a contiguous substring.
strIncludes(s, sub) ==
    \E i \in 0..Len(s) :
        /\ i + Len(sub) <= Len(s)
        /\ SubSeq(s, i + 1, i + Len(sub)) = sub

\* Array.prototype.includes (strict equality on strings).
includes(list, x) == \E i \in 1..Len(list) : list[i] = x

---------------------------------------------------------------------------
(* Module-level constants of the page.                                     *)

\* Mutant of DEMO_INTERACTIONS: the third record carries another severity.
DEMO_INTERACTIONS_ThirdModerate ==
    << [drug1 |-> "Metformin",    drug2 |-> "Amlodipine", severity |-> "minor",
        title |-> "Minor Interaction"],
       [drug1 |-> "Atorvastatin", drug2 |-> "Amlodipine", severity |-> "moderate",
        title |-> "Moderate Interaction"],
       [drug1 |-> "Pantoprazole", drug2 |-> "Metformin",  severity |-> "moderate",
        title |-> "Moderate Interaction"] >>

\* Mutant of DEMO_INTERACTIONS: the third record repeats the pair of the
\* first, with its drugs in the other order.
DEMO_INTERACTIONS_RepeatedPair ==
    << [drug1 |-> "Metformin",    drug2 |-> "Amlodipine", severity |-> "minor",
        title |-> "Minor Interaction"],
       [drug1 |-> "Atorvastatin", drug2 |-> "Amlodipine", severity |-> "moderate",
        title |-> "Moderate Interaction"],
       [drug1 |-> "Amlodipine",   drug2 |-> "Metformin",  severity |-> "minor",
        title |-> "Minor Interaction"] >>

\* main.jsx:14-39 (the description and action texts are display only)
DEMO_INTERACTIONS ==
    << [drug1 |-> "Metformin",    drug2 |-> "Amlodipine", severity |-> "minor",
        title |-> "Minor Interaction"],
       [drug1 |-> "Atorvastatin", drug2 |-> "Amlodipine", severity |-> "moderate",
        title |-> "Moderate Interaction"],
       [drug1 |-> "Pantoprazole", drug2 |-> "Metformin",  severity |-> "minor",
        title |-> "Minor Interaction"] >>

\* main.jsx:41-45
DRUG_DATABASE ==
    << "Metformin", "Amlodipine", "Pantoprazole", "Atorvastatin", "Aspirin",
       "Losartan", "Ramipril", "Glimepiride", "Clopidogrel", "Warfarin",
       "Ciprofloxacin", "Azithromycin", "Diazepam", "Omeprazole", "Paracetamol" >>

\* main.jsx:47-69 (the label of each severity the cards can render)
severityConfig ==
    [critical |-> [label |-> "CRITICAL"],
     moderate |-> [label |-> "MODERATE"],
     minor    |-> [label |-> "MINOR"]]

\* main.jsx:128, the initial value of the drugs state
InitialDrugs == << "Metformin", "Amlodipine", "Pantoprazole", "Atorvastatin" >>

---------------------------------------------------------------------------
(* Derived values and pure parts of the handlers.                          *)

\* main.jsx:133-135
suggestions(inp, ds) ==
    SelectSeq(DRUG_DATABASE,
              LAMBDA d : /\ strIncludes(toLowerCase(d), toLowerCase(inp))
                         /\ ~includes(ds, d)
                         /\ Len(inp) > 0)

\* Mutant of AddDrugList: the includes test is missing.
AddDrugList_NoIncludesTest(ds, name) == Append(ds, name)

\* main.jsx:138, the list addDrug stores
AddDrugList(ds, name) == IF ~includes(ds, name) THEN Append(ds, name) ELSE ds

\* main.jsx:145, the list removeDrug stores
RemoveDrugList(ds, name) == SelectSeq(ds, LAMBDA d : d # name)

---------------------------------------------------------------------------
(* What the page renders below the check button (main.jsx:297-322), as a   *)
(* function of the component state.                                        *)

\* Mutant of SummaryCounts: the critical tally reads 1.
SummaryCounts_CriticalOne == [critical |-> 1, moderate |-> 1, minor |-> 2]

\* main.jsx:299-312, the three hard-coded tallies of the summary row
SummaryCounts == [critical |-> 0, moderate |-> 1, minor |-> 2]

\* main.jsx:297-312: the summary row is rendered when checked
ShownCounts(ds, chk) == IF chk THEN SummaryCounts ELSE [t \in {} |-> 0]

\* Mutant of ShownRecords: only the records of two listed drugs are shown.
ShownRecords_OfListedDrugs(ds, chk) ==
    IF chk
    THEN SelectSeq(DEMO_INTERACTIONS,
                   LAMBDA r : includes(ds, r.drug1) /\ includes(ds, r.drug2))
    ELSE << >>

\* Mutant of ShownRecords: the records that name the first listed drug are
\* shown before the others.
ShownRecords_FirstListedFirst(ds, chk) ==
    IF chk /\ Len(ds) > 0
    THEN SelectSeq(DEMO_INTERACTIONS,
                   LAMBDA r : r.drug1 = ds[1] \/ r.drug2 = ds[1])
         \o SelectSeq(DEMO_INTERACTIONS,
                      LAMBDA r : r.drug1 # ds[1] /\ r.drug2 # ds[1])
    ELSE << >>

\* main.jsx:314-316: one card per DEMO_INTERACTIONS entry, in array order
ShownRecords(ds, chk) == IF chk THEN DEMO_INTERACTIONS ELSE << >>

\* main.jsx:318-320: the "no critical interactions" banner
SafeBanner(ds, chk) == chk

\* main.jsx:291: the click handler of the check button is setChecked(true)
\* and nothing else; no lookup of any pair is made, here or in the render
\* (main.jsx:297-322).  The sequence of pair lookups a check of ds issues:
QueriesIssued(ds) == << >>

\* The property names every object literal inherits from Object.prototype:
\* severityConfig[name] is then the inherited value, not undefined.
ObjectPrototypeMembers ==
    {"constructor", "hasOwnProperty", "isPrototypeOf", "propertyIsEnumerable",
     "toLocaleString", "toString", "valueOf", "__proto__",
     "__defineGetter__", "__defineSetter__", "__lookupGetter__",
     "__lookupSetter__"}

\* main.jsx:71-73,94-108: what one card shows.  For a severity that names
\* an inherited member cfg is that member, cfg.bg and cfg.label are
\* undefined and the badge is empty; for any other severity
\* severityConfig[item.severity] is undefined and reading cfg.bg throws.
InteractionCard(item) ==
    IF item.severity \in DOMAIN severityConfig
    THEN [drug1 |-> item.drug1, drug2 |-> item.drug2,
          label |-> severityConfig[item.severity].label]
    ELSE IF item.severity \in ObjectPrototypeMembers
    THEN [drug1 |-> item.drug1, drug2 |-> item.drug2, label |-> ""]
    ELSE "TypeError"

---------------------------------------------------------------------------
(* MultiPrescriptionPage: constants and what the results view renders.     *)

\* main.jsx:1125-1150 (date and color are display only)
PRESCRIPTIONS ==
    << [id |-> 1, doctor |-> "Dr. Ramesh Reddy", specialty |-> "Cardiologist",
        medicines |->
          << [name |-> "Amlodipine",   dose |-> "5mg",  freq |-> "OD", slot |-> "Night"],
             [name |-> "Atorvastatin", dose |-> "10mg", freq |-> "OD", slot |-> "Night"],
             [name |-> "Clopidogrel",  dose |-> "75mg", freq |-> "OD", slot |-> "Morning"] >>],
       [id |-> 2, doctor |-> "Dr. Sunita Sharma", specialty |-> "Endocrinologist",
        medicines |->
          << [name |-> "Metformin",    dose |-> "500mg", freq |-> "BD", slot |-> "Morning + Night"],
             [name |-> "Glimepiride",  dose |-> "1mg",   freq |-> "OD", slot |-> "Morning"],
             [name |-> "Pantoprazole", dose |-> "40mg",  freq |-> "OD", slot |-> "Morning"] >>] >>

\* Mutant of CROSS_INTERACTIONS: the record pairs Clopidogrel with
\* Atorvastatin, a drug of the same prescription, under the same labels.
CROSS_INTERACTIONS_SamePrescription ==
    << [drug1 |-> "Clopidogrel",  rx1 |-> "Cardiologist",
        drug2 |-> "Atorvastatin", rx2 |-> "Endocrinologist",
        severity |-> "moderate"] >>

\* main.jsx:1152-1162 (desc and action are display only)
CROSS_INTERACTIONS ==
    << [drug1 |-> "Clopidogrel",  rx1 |-> "Cardiologist",
        drug2 |-> "Pantoprazole", rx2 |-> "Endocrinologist",
        severity |-> "moderate"] >>

\* Mutant of MERGED_SCHEDULE: Metformin's Night dose is left out.
MERGED_SCHEDULE_NoNightMetformin ==
    << [slot |-> "Morning", meds |->
          << [name |-> "Clopidogrel",  dose |-> "75mg",  source |-> "Dr. Ramesh Reddy",  flag |-> FALSE],
             [name |-> "Metformin",    dose |-> "500mg", source |-> "Dr. Sunita Sharma", flag |-> FALSE],
             [name |-> "Glimepiride",  dose |-> "1mg",   source |-> "Dr. Sunita Sharma", flag |-> FALSE],
             [name |-> "Pantoprazole", dose |-> "40mg",  source |-> "Dr. Sunita Sharma", flag |-> TRUE] >>],
       [slot |-> "Night", meds |->
          << [name |-> "Amlodipine",   dose |-> "5mg",   source |-> "Dr. Ramesh Reddy",  flag |-> FALSE],
             [name |-> "Atorvastatin", dose |-> "10mg",  source |-> "Dr. Ramesh Reddy",  flag |-> FALSE] >>] >>

\* main.jsx:1177-1189, in Object.entries order.  flag is TRUE for the warning
\* sign and FALSE for null, which is how the row tests it (main.jsx:1414).
MERGED_SCHEDULE ==
    << [slot |-> "Morning", meds |->
          << [name |-> "Clopidogrel",  dose |-> "75mg",  source |-> "Dr. Ramesh Reddy",  flag |-> FALSE],
             [name |-> "Metformin",    dose |-> "500mg", source |-> "Dr. Sunita Sharma", flag |-> FALSE],
             [name |-> "Glimepiride",  dose |-> "1mg",   source |-> "Dr. Sunita Sharma", flag |-> FALSE],
             [name |-> "Pantoprazole", dose |-> "40mg",  source |-> "Dr. Sunita Sharma", flag |-> TRUE] >>],
       [slot |-> "Night", meds |->
          << [name |-> "Amlodipine",   dose |-> "5mg",   source |-> "Dr. Ramesh Reddy",  flag |-> FALSE],
             [name |-> "Atorvastatin", dose |-> "10mg",  source |-> "Dr. Ramesh Reddy",  flag |-> FALSE],
             [name |-> "Metformin",    dose |-> "500mg", source |-> "Dr. Sunita Sharma", flag |-> FALSE] >>] >>

\* main.jsx:1375-1396: one warning card per CROSS_INTERACTIONS entry, in
\* array order, each under the hard-coded badge "MODERATE - CROSS-PRESCRIPTION"
\* (main.jsx:1380) with the record's two drugs and two source labels.
ShownCross(st) ==
    IF st = "results"
    THEN [k \in DOMAIN CROSS_INTERACTIONS |->
            [drug1 |-> CROSS_INTERACTIONS[k].drug1, rx1 |-> CROSS_INTERACTIONS[k].rx1,
             drug2 |-> CROSS_INTERACTIONS[k].drug2, rx2 |-> CROSS_INTERACTIONS[k].rx2,
             badgeSeverity |-> "MODERATE", crossPrescription |-> TRUE]]
    ELSE << >>

\* main.jsx:1401-1425: the merged grid, one column per MERGED_SCHEDULE slot
ShownSchedule(st) == IF st = "results" THEN MERGED_SCHEDULE ELSE << >>

\* main.jsx:1348-1368: the prescription cards of the results view
ShownPrescriptions(st) == IF st = "results" THEN PRESCRIPTIONS ELSE << >>

---------------------------------------------------------------------------
(* VaultPage: constants and derived values.                                *)

\* part_002:3-48 (date, hospital, type, days and color are display only)
VAULT_DATA ==
    << [id |-> 1, doctor |-> "Dr. Ramesh Reddy",
        medicines |-> <<"Amlodipine 5mg", "Atorvastatin 10mg", "Aspirin 75mg">>,
        tags |-> <<"BP", "Cholesterol">>],
       [id |-> 2, doctor |-> "Dr. Sunita Sharma",
        medicines |-> <<"Metformin 500mg", "Glimepiride 1mg">>,
        tags |-> <<"Diabetes">>],
       [id |-> 3, doctor |-> "Dr. Anjali Nair",
        medicines |-> <<"Pantoprazole 40mg", "Domperidone 10mg", "ORS Sachets">>,
        tags |-> <<"Acidity", "GI">>],
       [id |-> 4, doctor |-> "Dr. Venkat Rao",
        medicines |-> <<"Paracetamol 500mg", "Cetirizine 10mg", "Amoxicillin 500mg">>,
        tags |-> <<"Fever", "Allergy">>] >>

\* Array.prototype.some with a substring test, as part_002:152-153 use it
someIncludes(list, sub) ==
    \E i \in 1..Len(list) : strIncludes(toLowerCase(list[i]), sub)

\* Mutant of filtered: the toLowerCase calls are missing.
filtered_CaseSensitive(srch) ==
    SelectSeq(VAULT_DATA,
              LAMBDA v : \/ strIncludes(v.doctor, srch)
                         \/ \E i \in 1..Len(v.medicines) : strIncludes(v.medicines[i], srch)
                         \/ \E i \in 1..Len(v.tags) : strIncludes(v.tags[i], srch))

\* part_002:150-154
filtered(srch) ==
    SelectSeq(VAULT_DATA,
              LAMBDA v : \/ strIncludes(toLowerCase(v.doctor), toLowerCase(srch))
                         \/ someIncludes(v.medicines, toLowerCase(srch))
                         \/ someIncludes(v.tags, toLowerCase(srch)))

\* Mutant of ToggleCompareList: the test of the length is missing.
ToggleCompareList_NoLimit(ids, id) ==
    IF includes(ids, id)
    THEN SelectSeq(ids, LAMBDA c : c # id)
    ELSE Append(ids, id)

\* Mutant of ToggleCompareList: with 2 selected, the new id replaces the
\* older one.
ToggleCompareList_ReplacesOldest(ids, id) ==
    IF includes(ids, id)
    THEN SelectSeq(ids, LAMBDA c : c # id)
    ELSE IF Len(ids) < 2 THEN Append(ids, id) ELSE Append(Tail(ids), id)

\* part_002:156-162, the list toggleCompare stores
ToggleCompareList(ids, id) ==
    IF includes(ids, id)
    THEN SelectSeq(ids, LAMBDA c : c # id)
    ELSE IF Len(ids) < 2 THEN Append(ids, id) ELSE ids

\* part_002:315-322: the VaultCards rendered, by item.id (history tab only)
MountedVaultCards(srch, t) ==
    IF t = "history"
    THEN {filtered(srch)[k].id : k \in DOMAIN filtered(srch)}
    ELSE {}

\* part_002:315-322: the history list, in the order rendered
ShownVaultList(srch, t) == IF t = "history" THEN filtered(srch) ELSE << >>

\* part_002:324-328: the "No prescriptions found" message
ShownNotFound(srch, t) == t = "history" /\ Len(filtered(srch)) = 0

---------------------------------------------------------------------------
(* ScanPage: constants.                                                    *)

\* ScanPage.jsx:3-52, the ids of DEMO_MEDICINES
DEMO_MEDICINE_IDS == <<1, 2, 3, 4>>

---------------------------------------------------------------------------
(* App: the pages of the router.                                           *)

\* part_001:12-19, the values getPage returns
Pages == {"home", "scan", "drug-checker", "schedule", "vault", "multi-prescription"}

---------------------------------------------------------------------------
(* Initial (mount) state of each page.                                     *)

\* Every card of a list collapsed.
AllClosed(keys) == [k \in keys |-> FALSE]

\* main.jsx:128-131, the page-level state DrugCheckerPage mounts with
CheckerInit ==
    /\ drugs = InitialDrugs
    /\ input = ""
    /\ showSuggestions = FALSE
    /\ checked = FALSE

\* main.jsx:72: no InteractionCard is mounted, and each mounts collapsed
CardsInit == cardOpen = AllClosed(DOMAIN DEMO_INTERACTIONS)

\* main.jsx:1172
MultiInit == multiState = "upload"

\* part_002:56,146-148
VaultInit ==
    /\ search = ""
    /\ compareIds = << >>
    /\ tab = "history"
    /\ vaultExpanded = AllClosed(1..Len(VAULT_DATA))

\* ScanPage.jsx:74,126-127
ScanInit ==
    /\ scanState = "upload"
    /\ dragOver = FALSE
    /\ scanTimer = FALSE
    /\ staleTimers = 0
    /\ medExpanded = AllClosed(DOMAIN DEMO_MEDICINE_IDS)

---------------------------------------------------------------------------
(* DrugCheckerPage: event handlers.                                        *)

\* Mutant of addDrug: setChecked(false) is missing.
addDrug_KeepsChecked(name) ==
    /\ includes(drugs, name) \/ Len(drugs) < MaxDrugs
    /\ drugs' = AddDrugList(drugs, name)
    /\ input' = ""
    /\ showSuggestions' = FALSE
    /\ UNCHANGED <<checked, cardOpen, routerVars, homeVars, multiVars, vaultVars, scanVars>>

\* main.jsx:137-142.  setChecked(false) unmounts the cards (main.jsx:297).
addDrug(name) ==
    /\ includes(drugs, name) \/ Len(drugs) < MaxDrugs
    /\ drugs' = AddDrugList(drugs, name)
    /\ input' = ""
    /\ showSuggestions' = FALSE
    /\ checked' = FALSE
    /\ cardOpen' = AllClosed(DOMAIN DEMO_INTERACTIONS)
    /\ UNCHANGED <<routerVars, homeVars, multiVars, vaultVars, scanVars>>

\* Mutant of removeDrug: setChecked(false) is missing.
removeDrug_KeepsChecked(name) ==
    /\ drugs' = RemoveDrugList(drugs, name)
    /\ UNCHANGED <<input, showSuggestions, checked, cardOpen>>
    /\ UNCHANGED <<routerVars, homeVars, multiVars, vaultVars, scanVars>>

\* main.jsx:144-147
removeDrug(name) ==
    /\ drugs' = RemoveDrugList(drugs, name)
    /\ checked' = FALSE
    /\ cardOpen' = AllClosed(DOMAIN DEMO_INTERACTIONS)
    /\ UNCHANGED <<input, showSuggestions>>
    /\ UNCHANGED <<routerVars, homeVars, multiVars, vaultVars, scanVars>>

\* main.jsx:276, onChange of the input box (fired by an edit, so the new
\* text differs from the old)
onChange ==
    /\ page = "drug-checker"
    /\ \E text \in TypedTexts :
        /\ text # input
        /\ input' = text
        /\ showSuggestions' = TRUE
        /\ UNCHANGED <<drugs, checked, cardOpen>>
        /\ UNCHANGED <<routerVars, homeVars, multiVars, vaultVars, scanVars>>

\* main.jsx:277, onKeyDown with key Enter (an empty string is falsy)
onKeyDownEnter ==
    /\ page = "drug-checker"
    /\ input # ""
    /\ addDrug(input)

\* main.jsx:279-285, a click on an item of the rendered suggestion list
clickSuggestion ==
    /\ page = "drug-checker"
    /\ showSuggestions
    /\ LET shown == suggestions(input, drugs)
       IN  \E i \in 1..Len(shown) : addDrug(shown[i])

\* main.jsx:263-268, a click on the remove button of a chip
clickRemove ==
    /\ page = "drug-checker"
    /\ \E i \in 1..Len(drugs) : removeDrug(drugs[i])

\* Mutant of clickCheck: the button is never disabled.
clickCheck_NeverDisabled ==
    /\ page = "drug-checker"
    /\ checked' = TRUE
    /\ UNCHANGED <<drugs, input, showSuggestions, cardOpen>>
    /\ UNCHANGED <<routerVars, homeVars, multiVars, vaultVars, scanVars>>

\* main.jsx:288-294, a click on the check button (disabled below 2 drugs).
\* The cards mount collapsed, which cardOpen already is while unchecked.
clickCheck ==
    /\ page = "drug-checker"
    /\ ~(Len(drugs) < 2)
    /\ checked' = TRUE
    /\ UNCHANGED <<drugs, input, showSuggestions, cardOpen>>
    /\ UNCHANGED <<routerVars, homeVars, multiVars, vaultVars, scanVars>>

\* main.jsx:72-76, a click on a rendered InteractionCard: setOpen(!open)
clickInteractionCard ==
    /\ page = "drug-checker"
    /\ checked
    /\ \E i \in DOMAIN DEMO_INTERACTIONS :
          cardOpen' = [cardOpen EXCEPT ![i] = ~cardOpen[i]]
    /\ UNCHANGED <<drugs, input, showSuggestions, checked>>
    /\ UNCHANGED <<routerVars, homeVars, multiVars, vaultVars, scanVars>>

\* The page-level events of DrugCheckerPage.
Next ==
    \/ onChange
    \/ onKeyDownEnter
    \/ clickSuggestion
    \/ clickRemove
    \/ clickCheck

---------------------------------------------------------------------------
(* MultiPrescriptionPage: event handlers.                                  *)

\* main.jsx:1338, the analyze button of the upload view
clickAnalyze ==
    /\ page = "multi-prescription"
    /\ multiState = "upload"
    /\ multiState' = "results"
    /\ UNCHANGED <<routerVars, homeVars, checkerVars, vaultVars, scanVars>>

\* main.jsx:1435, the "Upload New" button of the results view
clickUploadNew ==
    /\ page = "multi-prescription"
    /\ multiState = "results"
    /\ multiState' = "upload"
    /\ UNCHANGED <<routerVars, homeVars, checkerVars, vaultVars, scanVars>>

---------------------------------------------------------------------------
(* VaultPage: event handlers.  A VaultCard that stops being rendered is    *)
(* unmounted and mounts collapsed again (part_002:56,315-322).             *)

\* The expanded flags after the rendered cards change to those of (srch, t).
KeepMounted(exp, srch, t) ==
    [id \in DOMAIN exp |-> id \in MountedVaultCards(srch, t) /\ exp[id]]

\* The texts a user types into the search bar (any string in the code): a
\* doctor's name in upper case, a tag in lower case, a dose shared by
\* medicines of two entries, and a text that matches nothing.
SearchTexts == {"", "REDDY", "bp", "500mg", "zzz"}

\* part_002:294, onChange of the search bar
setSearch ==
    /\ page = "vault"
    /\ tab = "history"
    /\ \E text \in SearchTexts :
        /\ text # search
        /\ search' = text
        /\ vaultExpanded' = KeepMounted(vaultExpanded, text, tab)
        /\ UNCHANGED <<compareIds, tab>>
        /\ UNCHANGED <<routerVars, homeVars, checkerVars, multiVars, scanVars>>

\* part_002:282, a click on a tab button
setTab ==
    /\ page = "vault"
    /\ \E t \in {"history", "allergies", "export"} :
        /\ tab' = t
        /\ vaultExpanded' = KeepMounted(vaultExpanded, search, t)
        /\ UNCHANGED <<search, compareIds>>
        /\ UNCHANGED <<routerVars, homeVars, checkerVars, multiVars, scanVars>>

\* part_002:156-162, via the Compare button of a rendered card (part_002:101)
toggleCompare ==
    /\ page = "vault"
    /\ \E id \in MountedVaultCards(search, tab) :
        /\ compareIds' = ToggleCompareList(compareIds, id)
        /\ UNCHANGED <<search, tab, vaultExpanded>>
        /\ UNCHANGED <<routerVars, homeVars, checkerVars, multiVars, scanVars>>

\* part_002:297-303, "Compare Now", rendered while 2 ids are selected
clickCompareNow ==
    /\ page = "vault"
    /\ tab = "history"
    /\ Len(compareIds) = 2
    /\ compareIds' = << >>
    /\ UNCHANGED <<search, tab, vaultExpanded>>
    /\ UNCHANGED <<routerVars, homeVars, checkerVars, multiVars, scanVars>>

\* part_002:306-313, "Cancel", rendered while 1 id is selected
clickCancelCompare ==
    /\ page = "vault"
    /\ tab = "history"
    /\ Len(compareIds) = 1
    /\ compareIds' = << >>
    /\ UNCHANGED <<search, tab, vaultExpanded>>
    /\ UNCHANGED <<routerVars, homeVars, checkerVars, multiVars, scanVars>>

\* Mutant of clickVaultExpand: the click also runs onCompare for the card.
clickVaultExpand_AlsoCompares ==
    /\ page = "vault"
    /\ \E id \in MountedVaultCards(search, tab) :
        /\ vaultExpanded' = [vaultExpanded EXCEPT ![id] = ~vaultExpanded[id]]
        /\ compareIds' = ToggleCompareList(compareIds, id)
        /\ UNCHANGED <<search, tab>>
        /\ UNCHANGED <<routerVars, homeVars, checkerVars, multiVars, scanVars>>

\* part_002:113, the expand button of a rendered VaultCard
clickVaultExpand ==
    /\ page = "vault"
    /\ \E id \in MountedVaultCards(search, tab) :
        /\ vaultExpanded' = [vaultExpanded EXCEPT ![id] = ~vaultExpanded[id]]
        /\ UNCHANGED <<search, compareIds, tab>>
        /\ UNCHANGED <<routerVars, homeVars, checkerVars, multiVars, scanVars>>

NextVault ==
    \/ setSearch
    \/ setTab
    \/ toggleCompare
    \/ clickCompareNow
    \/ clickCancelCompare
    \/ clickVaultExpand

---------------------------------------------------------------------------
(* ScanPage: event handlers.                                               *)

\* ScanPage.jsx:129-132, via the scan button of the upload view (:562)
handleScan ==
    /\ page = "scan"
    /\ scanState = "upload"
    /\ scanState' = "scanning"
    /\ scanTimer' = TRUE
    /\ UNCHANGED <<dragOver, staleTimers, medExpanded>>
    /\ UNCHANGED <<routerVars, homeVars, checkerVars, multiVars, vaultVars>>

\* ScanPage.jsx:131, the timeout callback: setState("results"); the cards
\* mount collapsed
scanTimerFires ==
    /\ page = "scan"
    /\ scanTimer
    /\ scanTimer' = FALSE
    /\ scanState' = "results"
    /\ UNCHANGED <<dragOver, staleTimers, medExpanded>>
    /\ UNCHANGED <<routerVars, homeVars, checkerVars, multiVars, vaultVars>>

\* ScanPage.jsx:609, "Scan Again": the cards unmount
clickScanAgain ==
    /\ page = "scan"
    /\ scanState = "results"
    /\ scanState' = "upload"
    /\ medExpanded' = AllClosed(DOMAIN DEMO_MEDICINE_IDS)
    /\ UNCHANGED <<dragOver, scanTimer, staleTimers>>
    /\ UNCHANGED <<routerVars, homeVars, checkerVars, multiVars, vaultVars>>

\* ScanPage.jsx:555-557, onDragOver, onDragLeave and onDrop of the upload zone
setDragOver ==
    /\ page = "scan"
    /\ scanState = "upload"
    /\ \E b \in BOOLEAN :
        /\ dragOver' = b
        /\ UNCHANGED <<scanState, scanTimer, staleTimers, medExpanded>>
        /\ UNCHANGED <<routerVars, homeVars, checkerVars, multiVars, vaultVars>>

\* ScanPage.jsx:86, a click on a rendered MedicineCard: setExpanded(!expanded)
clickMedicineCard ==
    /\ page = "scan"
    /\ scanState = "results"
    /\ \E i \in DOMAIN DEMO_MEDICINE_IDS :
          medExpanded' = [medExpanded EXCEPT ![i] = ~medExpanded[i]]
    /\ UNCHANGED <<scanState, dragOver, scanTimer, staleTimers>>
    /\ UNCHANGED <<routerVars, homeVars, checkerVars, multiVars, vaultVars>>

NextScan ==
    \/ handleScan
    \/ scanTimerFires
    \/ clickScanAgain
    \/ setDragOver
    \/ clickMedicineCard

---------------------------------------------------------------------------
(* HomePage: the StatCard counter.  The four StatCards are independent and *)
(* run the same code; one is modelled, with the target of any of them.     *)

\* main.jsx:1028-1031: parseInt of the digits of "800M+", "3B+", "80%", "30s"
StatTargets == {800, 3, 80, 30}

\* main.jsx:484
StatDuration == 1800

\* main.jsx:493, the period of the interval; also the divisor of main.jsx:485
StatInterval == 16

\* main.jsx:478-486 at mount on the home page; no StatCard on another page
HomeInit ==
    /\ statTarget \in (IF page = "home" THEN StatTargets ELSE {0})
    /\ statTicks = 0
    /\ statCount = 0
    /\ statTimer = (page = "home")

\* Mutant of statTick: clearInterval is missing from the final branch (the
\* callback then runs on; the model follows it for twice the duration).
statTick_NeverCleared ==
    /\ page = "home"
    /\ statTimer
    /\ statTicks < 2 * (StatDuration \div StatInterval)
    /\ statTicks' = statTicks + 1
    /\ IF statTicks' * statTarget * StatInterval >= statTarget * StatDuration
       THEN statCount' = statTarget
       ELSE LET q == (statTicks' * statTarget * StatInterval) \div StatDuration
                r == (statTicks' * statTarget * StatInterval) % StatDuration
            IN  statCount' \in (IF r = 0 /\ q > 0 THEN {q - 1, q} ELSE {q})
    /\ UNCHANGED <<statTarget, statTimer>>
    /\ UNCHANGED <<routerVars, checkerVars, multiVars, vaultVars, scanVars>>

\* main.jsx:486-493, one run of the interval callback.  step is
\* numVal / (duration / 16) and start is step added statTicks times, so
\* start >= numVal is statTicks * numVal * 16 >= numVal * duration.  start is
\* a double: where the exact sum is an integer the accumulated one may lie
\* just below it (numVal 80, tick 90: floor gives 63, not 64), so Math.floor
\* yields either.
statTick ==
    /\ page = "home"
    /\ statTimer
    /\ statTicks' = statTicks + 1
    /\ IF statTicks' * statTarget * StatInterval >= statTarget * StatDuration
       THEN /\ statCount' = statTarget
            /\ statTimer' = FALSE
       ELSE /\ LET q == (statTicks' * statTarget * StatInterval) \div StatDuration
                   r == (statTicks' * statTarget * StatInterval) % StatDuration
               IN  statCount' \in (IF r = 0 /\ q > 0 THEN {q - 1, q} ELSE {q})
            /\ statTimer' = TRUE
    /\ UNCHANGED statTarget
    /\ UNCHANGED <<routerVars, checkerVars, multiVars, vaultVars, scanVars>>

---------------------------------------------------------------------------
(* App: the router.                                                        *)

\* The session history is followed up to this many entries: no entry is
\* added beyond it.
MaxHist == 3

\* Timeouts of unmounted ScanPages that can be pending at once: each fires
\* 2.8 s after its scan began.
MaxStale == 2

\* Mutant of getPage: the test of /vault is missing.
getPage_NoVault(path) ==
    IF path = "/scan" THEN "scan"
    ELSE IF path = "/drug-checker" THEN "drug-checker"
    ELSE IF path = "/schedule" THEN "schedule"
    ELSE IF path = "/multi-prescription" THEN "multi-prescription"
    ELSE "home"

\* part_001:12-19
getPage(path) ==
    IF path = "/scan" THEN "scan"
    ELSE IF path = "/drug-checker" THEN "drug-checker"
    ELSE IF path = "/schedule" THEN "schedule"
    ELSE IF path = "/vault" THEN "vault"
    ELSE IF path = "/multi-prescription" THEN "multi-prescription"
    ELSE "home"

\* String.prototype.startsWith
startsWith(s, prefix) ==
    Len(s) >= Len(prefix) /\ SubSeq(s, 1, Len(prefix)) = prefix

\* The URLs the App is loaded at: the six paths of the navbar, the /dosage
\* of the home page's feature card, a path getPage has no test for, and a
\* path with a query.
LoadPaths ==
    {"/", "/scan", "/drug-checker", "/schedule", "/vault", "/multi-prescription",
     "/dosage", "/vault?q=1"}

\* The href of each anchor a click can land in.  Navbar.jsx:13-20,200 and
\* the footer (part_001:273-297) are rendered on every page, the feature
\* cards and buttons of main.jsx:1003-1087 on the home page, "#" also by
\* main.jsx:1429-1432 and SchedulePage.jsx:264, and ScanPage.jsx:606-608 in
\* the results view.  No anchor of these sources has an http href.
ClickedHrefs(pg, st) ==
    {"/", "/scan", "/drug-checker", "/schedule", "/vault", "/multi-prescription", "#"}
    \cup (IF pg = "home" THEN {"/dosage"} ELSE {})

\* Every href of ClickedHrefs, and the URLs the history holds with them.
RenderedHrefs == ClickedHrefs("home", "results")

KnownUrls ==
    LET u == LoadPaths \cup (RenderedHrefs \ {"#"})
    IN  u \cup {x \o "#" : x \in u}

\* The part of s before its first character of stops.
RECURSIVE cutAt(_, _)
cutAt(s, stops) ==
    IF s = "" \/ SubSeq(s, 1, 1) \in stops THEN ""
    ELSE SubSeq(s, 1, 1) \o cutAt(Tail(s), stops)

\* cutAt, computed once for the URLs above.
KnownPathname == [u \in KnownUrls |-> cutAt(u, {"?", "#"})]

KnownWithoutFragment == [u \in KnownUrls |-> cutAt(u, {"#"})]

\* window.location.pathname for the URL of a history entry: the part before
\* the query and the fragment.
pathname(url) ==
    IF url \in KnownUrls THEN KnownPathname[url] ELSE cutAt(url, {"?", "#"})

\* The URL without its fragment.
withoutFragment(url) ==
    IF url \in KnownUrls THEN KnownWithoutFragment[url] ELSE cutAt(url, {"#"})

---------------------------------------------------------------------------
(* App: rendering, the history and the handlers, for one document: every   *)
(* anchor the App renders is handled within the document.                  *)

\* The page named p mounts: every page's state is as at mount (the state of
\* a page that is not mounted is held at that value).
MountNew(p) ==
    /\ drugs' = InitialDrugs
    /\ input' = ""
    /\ showSuggestions' = FALSE
    /\ checked' = FALSE
    /\ cardOpen' = AllClosed(DOMAIN DEMO_INTERACTIONS)
    /\ multiState' = "upload"
    /\ search' = ""
    /\ compareIds' = << >>
    /\ tab' = "history"
    /\ vaultExpanded' = AllClosed(1..Len(VAULT_DATA))
    /\ scanState' = "upload"
    /\ dragOver' = FALSE
    /\ scanTimer' = FALSE
    /\ medExpanded' = AllClosed(DOMAIN DEMO_MEDICINE_IDS)
    /\ statTarget' \in (IF p = "home" THEN StatTargets ELSE {0})
    /\ statTicks' = 0
    /\ statCount' = 0
    /\ statTimer' = (p = "home")

\* part_001:93-98: App renders the page named p.  A page that stays rendered
\* keeps its state.  Otherwise the old page unmounts: its state is gone, its
\* StatCard interval is cleared (main.jsx:494) and its scan timeout, never
\* cleared, stays pending; the new page mounts with its initial state.
Render(p) ==
    IF p = page
    THEN UNCHANGED <<checkerVars, homeVars, multiVars, vaultVars, scanVars>>
    ELSE /\ scanTimer => staleTimers < MaxStale
         /\ staleTimers' = staleTimers + (IF scanTimer THEN 1 ELSE 0)
         /\ MountNew(p)

\* part_001:93-98: the page components App renders, one conditional each.
RenderedPages(pg) ==
    (IF pg = "home" THEN {"home"} ELSE {})
    \cup (IF pg = "scan" THEN {"scan"} ELSE {})
    \cup (IF pg = "drug-checker" THEN {"drug-checker"} ELSE {})
    \cup (IF pg = "schedule" THEN {"schedule"} ELSE {})
    \cup (IF pg = "vault" THEN {"vault"} ELSE {})
    \cup (IF pg = "multi-prescription" THEN {"multi-prescription"} ELSE {})

\* The session history with a new entry for url: the entries after the
\* current one are dropped and the new entry becomes the current one.
entryAdded(url) ==
    [hist |-> Append(SubSeq(hist, 1, hidx), url), hidx |-> hidx + 1]

\* A new entry for url is added to the session history.
pushEntry(url) ==
    /\ hidx < MaxHist
    /\ hidx' = hidx + 1
    /\ hist' = entryAdded(url).hist

\* The URL the browser makes of an href of a rendered anchor while the
\* location is base: an absolute path of letters and hyphens is the URL
\* itself, and "#" is the location with an empty fragment.  Other hrefs are
\* not rendered and have no value here.
resolvedUrl(href, base) ==
    CASE href \in RenderedHrefs /\ href # "#" -> href
      [] href = "#" -> withoutFragment(base) \o "#"

\* Mutant of returnsEarly: the test of a leading "#" is missing.
returnsEarly_NoHashTest(href) == href = "" \/ startsWith(href, "http")

\* part_001:31: !href || href.startsWith("http") || href.startsWith("#")
noHrefOrHttpOrHash(href) ==
    href = "" \/ startsWith(href, "http") \/ startsWith(href, "#")

\* The test of part_001:31, computed once for the rendered hrefs.
KnownReturnsEarly == [href \in RenderedHrefs |-> noHrefOrHttpOrHash(href)]

\* part_001:30-31: the handler returns before e.preventDefault()
returnsEarly(href) ==
    IF href \in RenderedHrefs THEN KnownReturnsEarly[href]
    ELSE noHrefOrHttpOrHash(href)

\* The browser's own action for a click in a rendered anchor that the
\* handler has not prevented, which is a click in a "#" link: a navigation
\* to the fragment within the document.  The URL becomes a new entry unless
\* the location is that URL already, popstate is raised and handlePop
\* (part_001:42-46) sets the page of the pathname, which is the same.
defaultAction(href) ==
    LET url == resolvedUrl(href, hist[hidx])
    IN  /\ IF url = hist[hidx]
           THEN UNCHANGED <<hist, hidx>>
           ELSE pushEntry(url)
        /\ page' = getPage(pathname(url))
        /\ Render(getPage(pathname(url)))

\* part_001:27-36: the page and the history the handler leaves for a click
\* inside an anchor of this href.  It returns early and leaves them as they
\* are, or it calls pushState({}, "", href) and setPage(getPage(href)).
handleClickResult(href) ==
    IF returnsEarly(href)
    THEN [page |-> page, hist |-> hist, hidx |-> hidx]
    ELSE LET added == entryAdded(resolvedUrl(href, hist[hidx]))
         IN  [page |-> getPage(href), hist |-> added.hist, hidx |-> added.hidx]

\* part_001:27-36, for a click inside a rendered anchor, with the default
\* action of the click where the handler has returned early
handleClick(href) ==
    IF returnsEarly(href)
    THEN defaultAction(href)
    ELSE LET r == handleClickResult(href)
         IN  /\ hidx < MaxHist
             /\ page' = r.page
             /\ hist' = r.hist
             /\ hidx' = r.hidx
             /\ Render(r.page)

\* A click inside an anchor of the rendered document.
clickLink == \E href \in ClickedHrefs(page, scanState) : handleClick(href)

\* part_001:28-29: a click outside every anchor
clickNoLink == UNCHANGED vars

\* Mutant of handlePop: setPage is missing.
handlePop_NoSetPage(i) ==
    /\ i \in DOMAIN hist
    /\ hidx' = i
    /\ UNCHANGED <<page, hist, checkerVars, homeVars, multiVars, vaultVars, scanVars>>

\* part_001:42-46: the browser has moved to entry i of the history, the
\* location is that entry's URL, and the popstate listener runs.
handlePop(i) ==
    /\ i \in DOMAIN hist
    /\ hidx' = i
    /\ hist' = hist
    /\ page' = getPage(pathname(hist[i]))
    /\ Render(getPage(pathname(hist[i])))

\* The browser's back button.
goBack == handlePop(hidx - 1)

\* The browser's forward button.
goForward == handlePop(hidx + 1)

\* Mutant of staleTimerFires: the callback's setState reaches whichever
\* ScanPage is mounted.
staleTimerFires_SetsResults ==
    /\ staleTimers > 0
    /\ staleTimers' = staleTimers - 1
    /\ scanState' = IF page = "scan" THEN "results" ELSE scanState
    /\ UNCHANGED <<dragOver, scanTimer, medExpanded>>
    /\ UNCHANGED <<routerVars, homeVars, checkerVars, multiVars, vaultVars>>

\* ScanPage.jsx:131: the timeout of a ScanPage that has unmounted runs; its
\* setState is that of the unmounted component and changes nothing rendered.
staleTimerFires ==
    /\ staleTimers > 0
    /\ staleTimers' = staleTimers - 1
    /\ UNCHANGED <<scanState, dragOver, scanTimer, medExpanded>>
    /\ UNCHANGED <<routerVars, homeVars, checkerVars, multiVars, vaultVars>>

NextRouter ==
    \/ clickLink
    \/ clickNoLink
    \/ goBack
    \/ goForward
    \/ staleTimerFires
    \/ handleScan
    \/ scanTimerFires
    \/ clickScanAgain
    \/ setDragOver

---------------------------------------------------------------------------
(* Specifications.                                                         *)

\* part_001:22: the App loaded at url, with every page's state as it is at
\* mount.
LoadedAt(url) ==
    /\ hist = <<url>>
    /\ hidx = 1
    /\ page = getPage(pathname(url))
    /\ CheckerInit /\ CardsInit /\ MultiInit /\ VaultInit /\ ScanInit /\ HomeInit

\* The App loaded at /drug-checker.
Init == LoadedAt("/drug-checker")

\* DrugCheckerPage mounted, its page-level events only.
Spec == Init /\ [][Next]_vars

\* The App loaded at /vault.
InitVault == LoadedAt("/vault")

\* VaultPage mounted.
SpecVault == InitVault /\ [][NextVault]_vars

\* The App loaded at any of the URLs.
InitApp == \E url \in LoadPaths : LoadedAt(url)

NextApp ==
    \/ Next
    \/ clickInteractionCard
    \/ clickAnalyze
    \/ clickUploadNew
    \/ NextVault
    \/ NextScan
    \/ statTick

\* The App loaded at any path, and every page's events while it stays
\* rendered.
SpecApp == InitApp /\ [][NextApp]_vars

\* The App loaded at any path: navigation by links and by the browser's
\* back and forward buttons, the ScanPage's events and the timeouts it
\* leaves behind.
SpecRouter == InitApp /\ [][NextRouter]_vars

\* SpecRouter, with the timeout of the mounted ScanPage firing if it stays
\* pending (the browser runs a timeout that is due).
SpecRouterFair == SpecRouter /\ WF_vars(scanTimerFires)

\* The App loaded at /.
InitHome == LoadedAt("/")

\* HomePage mounted: the StatCard's interval, which the browser keeps
\* running while it is active.
SpecStat == InitHome /\ [][statTick]_vars /\ WF_vars(statTick)

---------------------------------------------------------------------------
(* Vocabulary of the properties.                                           *)

\* The severity tiers of a result, and their display rank (critical first).
Tiers == {"critical", "moderate", "minor"}

TierRank(sev) ==
    CASE sev = "critical" -> 0
      [] sev = "moderate" -> 1
      [] sev = "minor"    -> 2
      [] OTHER            -> 3

\* The number of records of a list whose severity label is exactly sev.
CountOf(recs, sev) == Cardinality({i \in DOMAIN recs : recs[i].severity = sev})

\* The unknown tally of the shown result: the page renders no such tally, so
\* it is the number of shown records marked unknown.
UnknownCount == CountOf(ShownRecords(drugs, checked), "unknown")

\* The names a drug list can be changed by.
Names == {InitialDrugs[i] : i \in DOMAIN InitialDrugs}
         \cup (TypedTexts \ {""})
         \cup {DRUG_DATABASE[i] : i \in DOMAIN DRUG_DATABASE}

NoDuplicates(list) ==
    \A i, j \in DOMAIN list : i # j => list[i] # list[j]

RECURSIVE TrimStart(_)
TrimStart(s) ==
    IF Len(s) > 0 /\ SubSeq(s, 1, 1) = " " THEN TrimStart(Tail(s)) ELSE s

RECURSIVE TrimEnd(_)
TrimEnd(s) ==
    IF Len(s) > 0 /\ SubSeq(s, Len(s), Len(s)) = " "
    THEN TrimEnd(SubSeq(s, 1, Len(s) - 1))
    ELSE s

\* The normalized identifier of a drug name: trimmed and lower-cased.
Normalized(s) == toLowerCase(TrimEnd(TrimStart(s)))

\* The position of the unordered pair {a, b} in the enumeration i < j of
\* the pairs of the list ds (0 when a or b is no member).
PairIndex(ds, a, b) ==
    IF \E i, j \in DOMAIN ds : i < j /\ {ds[i], ds[j]} = {a, b}
    THEN LET p == CHOOSE q \in (DOMAIN ds) \X (DOMAIN ds) :
                      q[1] < q[2] /\ {ds[q[1]], ds[q[2]]} = {a, b}
         IN  (p[1] - 1) * Len(ds) + p[2]
    ELSE 0

---------------------------------------------------------------------------
(* Properties.                                                             *)

\* C1: whenever a result is shown, the "no critical findings" banner is
\* present if and only if the critical count is zero and the unknown count
\* is zero.
C1_SafeFlagIffNoCriticalNoUnknown ==
    checked =>
        (SafeBanner(drugs, checked)
            <=> (ShownCounts(drugs, checked).critical = 0 /\ UnknownCount = 0))

\* C1 witness: a result is shown with the banner, zero critical and zero
\* unknown findings.
C1_Witness ==
    /\ checked
    /\ SafeBanner(drugs, checked)
    /\ ShownCounts(drugs, checked).critical = 0
    /\ UnknownCount = 0

\* C2: every record of a shown result is for a pair of two different drugs
\* that are both members of the current drug list.
C2_RecordsNameListedDrugs ==
    checked =>
        \A k \in DOMAIN ShownRecords(drugs, checked) :
            LET r == ShownRecords(drugs, checked)[k]
            IN  /\ r.drug1 # r.drug2
                /\ includes(drugs, r.drug1)
                /\ includes(drugs, r.drug2)

\* The result the page shows for every drug list.
FixedCounts == [critical |-> 0, moderate |-> 1, minor |-> 2]

FixedPairs ==
    << <<"Metformin", "Amlodipine", "minor">>,
       <<"Atorvastatin", "Amlodipine", "moderate">>,
       <<"Pantoprazole", "Metformin", "minor">> >>

PairsOf(recs) ==
    [k \in DOMAIN recs |-> <<recs[k].drug1, recs[k].drug2, recs[k].severity>>]

\* C3: a shown result is always 0 critical, 1 moderate, 2 minor with the
\* same three records, and it is the result every drug list one addDrug or
\* removeDrug away would show: the result does not depend on the drug list.
C3_ResultIndependentOfDrugList ==
    checked =>
        /\ ShownCounts(drugs, checked) = FixedCounts
        /\ PairsOf(ShownRecords(drugs, checked)) = FixedPairs
        /\ \A n \in Names :
              /\ ShownCounts(AddDrugList(drugs, n), checked)
                     = ShownCounts(drugs, checked)
              /\ ShownRecords(AddDrugList(drugs, n), checked)
                     = ShownRecords(drugs, checked)
              /\ ShownCounts(RemoveDrugList(drugs, n), checked)
                     = ShownCounts(drugs, checked)
              /\ ShownRecords(RemoveDrugList(drugs, n), checked)
                     = ShownRecords(drugs, checked)

\* C3 witness: a result is shown for a list that differs from the initial
\* one by a removal and by an addition of free text.
C3_Witness ==
    /\ checked
    /\ ~includes(drugs, "Metformin")
    /\ includes(drugs, "met")

\* C4: each reported tally equals the number of shown records whose
\* severity label is exactly that tier.
C4_CountsMatchRecords ==
    checked =>
        \A t \in Tiers :
            ShownCounts(drugs, checked)[t]
                = CountOf(ShownRecords(drugs, checked), t)

\* C4 witness: a result with a non-zero tally and records is shown.
C4_Witness ==
    /\ checked
    /\ ShownCounts(drugs, checked).minor = 2
    /\ Len(ShownRecords(drugs, checked)) = 3

\* C6: the check button acts only on a list of at least 2 drugs.
C6_CheckNeedsTwoDrugs == (ENABLED clickCheck) => Len(drugs) >= 2

\* C6 witness: a check has run on a list of exactly 2 drugs.
C6_Witness == checked /\ Len(drugs) = 2

\* C7: with fewer than 2 drugs listed nothing of a result is shown: no
\* records, no tallies, no safe banner.
C7_NoResultBelowTwoDrugs ==
    Len(drugs) < 2 =>
        /\ ~checked
        /\ ShownRecords(drugs, checked) = << >>
        /\ DOMAIN ShownCounts(drugs, checked) = {}
        /\ ~SafeBanner(drugs, checked)

\* C7 witness: a single drug is left and no result is shown.
C7_Witness == Len(drugs) = 1 /\ ~checked

\* C8: the drug list never holds two entries with the same normalized
\* identifier (equal after trimming and lower-casing).
C8_NoNormalizedDuplicates ==
    \A i, j \in DOMAIN drugs :
        i # j => Normalized(drugs[i]) # Normalized(drugs[j])

\* C9: the drug list holds no string twice, and addDrug of a name that is
\* already listed stores the list unchanged.
C9_ExactSetSemantics ==
    /\ NoDuplicates(drugs)
    /\ \A i \in DOMAIN drugs : AddDrugList(drugs, drugs[i]) = drugs

\* C9 witness: a list changed by a removal and by an addition, full to the
\* cap, so that a further addDrug can only name a listed drug.
C9_Witness ==
    /\ includes(drugs, "aspirin")
    /\ ~includes(drugs, "Amlodipine")
    /\ Len(drugs) = MaxDrugs

\* C10: the shown records are ordered critical, moderate, minor, unknown,
\* and records of one tier follow the enumeration order of their pairs.
C10_SortedBySeverity ==
    checked =>
        LET recs == ShownRecords(drugs, checked)
        IN  \A i, j \in DOMAIN recs :
                i < j =>
                    /\ TierRank(recs[i].severity) <= TierRank(recs[j].severity)
                    /\ ( /\ recs[i].severity = recs[j].severity
                         /\ PairIndex(drugs, recs[i].drug1, recs[i].drug2) > 0
                         /\ PairIndex(drugs, recs[j].drug1, recs[j].drug2) > 0 )
                       => PairIndex(drugs, recs[i].drug1, recs[i].drug2)
                              < PairIndex(drugs, recs[j].drug1, recs[j].drug2)

---------------------------------------------------------------------------
(* Multi-prescription results: vocabulary of the claims.                   *)

\* The drugs that take part in a shown cross-source interaction record.
CrossDrugs(st) ==
    {ShownCross(st)[k].drug1 : k \in DOMAIN ShownCross(st)} \cup
    {ShownCross(st)[k].drug2 : k \in DOMAIN ShownCross(st)}

\* The entries of the shown schedule, as (slot, position) pairs.
ScheduleCells(st) ==
    {<<i, j>> \in (1..2) \X (1..4) :
        /\ i \in DOMAIN ShownSchedule(st)
        /\ j \in DOMAIN ShownSchedule(st)[i].meds}

\* The indexes of the prescriptions that contain drug d.
PrescriptionsWith(d) ==
    {r \in DOMAIN PRESCRIPTIONS :
        \E m \in DOMAIN PRESCRIPTIONS[r].medicines :
            PRESCRIPTIONS[r].medicines[m].name = d}

\* The labels (specialties) of the prescriptions that contain drug d.
LabelsOf(d) == {PRESCRIPTIONS[r].specialty : r \in PrescriptionsWith(d)}

\* A medicine's slot string names the bucket: "Morning + Night" names both.
AssignedTo(slotText, bucket) == strIncludes(slotText, bucket)

\* The entries one prescription contributes to a bucket, in medicine order.
RECURSIVE EntriesOf(_, _, _)
EntriesOf(rx, bucket, m) ==
    IF m > Len(rx.medicines) THEN << >>
    ELSE (IF AssignedTo(rx.medicines[m].slot, bucket)
          THEN << [name |-> rx.medicines[m].name, dose |-> rx.medicines[m].dose,
                   source |-> rx.doctor] >>
          ELSE << >>) \o EntriesOf(rx, bucket, m + 1)

\* The merge of all prescriptions into a bucket, in prescription order.
RECURSIVE MergeInto(_, _)
MergeInto(bucket, r) ==
    IF r > Len(PRESCRIPTIONS) THEN << >>
    ELSE EntriesOf(PRESCRIPTIONS[r], bucket, 1) \o MergeInto(bucket, r + 1)

\* A shown bucket without the conflict flags.
Unflagged(meds) ==
    [j \in DOMAIN meds |->
        [name |-> meds[j].name, dose |-> meds[j].dose, source |-> meds[j].source]]

---------------------------------------------------------------------------
(* C11 -- C13: the multi-prescription results view.                        *)

\* C11: in the shown merged schedule an entry carries the conflict flag
\* exactly when its drug takes part in a shown cross-source interaction
\* record: both drugs of the pair are flagged in every slot, nothing else is.
\* The code violates it: Clopidogrel's Morning entry has flag null.
C11_FlagIffInCrossInteraction ==
    \A c \in ScheduleCells(multiState) :
        ShownSchedule(multiState)[c[1]].meds[c[2]].flag
            <=> ShownSchedule(multiState)[c[1]].meds[c[2]].name \in CrossDrugs(multiState)

\* C12: every shown interaction record is marked cross-prescription exactly
\* when no prescription contains both of its drugs, and its two source labels
\* are the labels of the prescriptions that contain drug1 and drug2.
C12_CrossSourceIffDisjoint ==
    \A k \in DOMAIN ShownCross(multiState) :
        LET rec == ShownCross(multiState)[k]
        IN  /\ rec.crossPrescription
                <=> (PrescriptionsWith(rec.drug1) \cap PrescriptionsWith(rec.drug2) = {})
            /\ PrescriptionsWith(rec.drug1) # {}
            /\ PrescriptionsWith(rec.drug2) # {}
            /\ LabelsOf(rec.drug1) = {rec.rx1}
            /\ LabelsOf(rec.drug2) = {rec.rx2}

\* The results view shows a record between drugs of different prescriptions.
C12_Witness ==
    /\ page = "multi-prescription"
    /\ multiState = "results"
    /\ \E k \in DOMAIN ShownCross(multiState) :
          /\ ShownCross(multiState)[k].crossPrescription
          /\ PrescriptionsWith(ShownCross(multiState)[k].drug1) = {1}
          /\ PrescriptionsWith(ShownCross(multiState)[k].drug2) = {2}

\* C13: each bucket of the shown merged schedule holds exactly the merge of
\* the shown prescriptions into it: one entry (name, dose, the prescription's
\* doctor as source) per prescription and medicine assigned to the slot, a
\* "Morning + Night" medicine in both buckets, in prescription and medicine
\* order, nothing deduplicated and nothing else; and every medicine's slot is
\* one of the shown buckets.
C13_ScheduleIsMergeOfPrescriptions ==
    multiState = "results" =>
        /\ \A i \in DOMAIN ShownSchedule(multiState) :
              Unflagged(ShownSchedule(multiState)[i].meds)
                  = MergeInto(ShownSchedule(multiState)[i].slot, 1)
        /\ \A r \in DOMAIN PRESCRIPTIONS :
              \A m \in DOMAIN PRESCRIPTIONS[r].medicines :
                  \E i \in DOMAIN ShownSchedule(multiState) :
                      AssignedTo(PRESCRIPTIONS[r].medicines[m].slot,
                                 ShownSchedule(multiState)[i].slot)

\* The results view shows the schedule, with the twice-daily Metformin in
\* both buckets.
C13_Witness ==
    /\ page = "multi-prescription"
    /\ multiState = "results"
    /\ \A i \in DOMAIN ShownSchedule(multiState) :
          \E j \in DOMAIN ShownSchedule(multiState)[i].meds :
              ShownSchedule(multiState)[i].meds[j].name = "Metformin"
    /\ Len(ShownSchedule(multiState)) = 2

---------------------------------------------------------------------------
(* C14 -- C17: the check as a request.                                     *)

\* C14: no step that changes the drug list ends with a result displayed: an
\* add or a remove discards the result, and a check displays the result
\* without changing the list.  So a displayed result always belongs to the
\* list as it stood at the last click on the check button.
C14_ListChangeDiscardsResult == [][drugs' # drugs => ~checked']_vars

\* A result is displayed for a list that was edited since the page mounted,
\* by a removal and by an addition.
C14_Witness ==
    /\ checked
    /\ ~includes(drugs, "Metformin")
    /\ includes(drugs, "aspirin")

\* What a check of list ds displays: the tallies and the ordered records.
CheckResult(ds) == <<ShownCounts(ds, TRUE), ShownRecords(ds, TRUE)>>

\* The list with the neighbours at positions i and i+1 exchanged.
SwapNeighbours(ds, i) ==
    [k \in DOMAIN ds |-> IF k = i THEN ds[i + 1] ELSE IF k = i + 1 THEN ds[i] ELSE ds[k]]

\* The set of the drugs of a list.
DrugSet(ds) == {ds[i] : i \in DOMAIN ds}

\* C15: a check of the same drug set displays the same tallies and the same
\* ordered records as the check whose result is displayed: (a) after an add
\* of an unlisted name followed by the removal of the chip it made, and (b)
\* for the same drugs listed in another order (remove and re-add moves a drug
\* to the end; every reordering is a sequence of neighbour exchanges).
C15_CheckIdempotent ==
    checked =>
        /\ \A name \in TypedTexts \ {""} :
              LET added == AddDrugList(drugs, name)
                  back  == RemoveDrugList(added, added[Len(added)])
              IN  added # drugs =>
                      /\ DrugSet(back) = DrugSet(drugs)
                      /\ CheckResult(back) = CheckResult(drugs)
        /\ \A i \in 1..(Len(drugs) - 1) :
              CheckResult(SwapNeighbours(drugs, i)) = CheckResult(drugs)

\* A result is displayed for the initial drug set after the list was edited
\* and restored: the same set, in another order.
C15_Witness ==
    /\ checked
    /\ DrugSet(drugs) = DrugSet(InitialDrugs)
    /\ drugs # InitialDrugs

\* The distinct normalized identifiers of a list.
NormalizedIds(ds) == {Normalized(ds[i]) : i \in DOMAIN ds}

\* The unordered pairs of distinct identifiers.
UnorderedPairs(ids) == {{a, b} : a, b \in ids} \ {{a} : a \in ids}

\* C16: a check issues exactly one Knowledge Source query per unordered pair
\* of distinct normalized identifiers of the list: C(n,2) queries, no pair
\* twice, no pair skipped.  The code violates it: a check issues no query.
C16_OneQueryPerPair ==
    checked =>
        LET n == Cardinality(NormalizedIds(drugs))
            q == QueriesIssued(drugs)
        IN  /\ Len(q) = (n * (n - 1)) \div 2
            /\ \A i, j \in DOMAIN q : i # j => q[i] # q[j]
            /\ {q[i] : i \in DOMAIN q} = UnorderedPairs(NormalizedIds(drugs))

---------------------------------------------------------------------------
(* C18: expand/collapse state of the cards.                                *)

\* The cards of each kind that a step toggles: mounted before and after the
\* step, with a different open flag.  (A card that unmounts, with its list
\* or with its page, loses its flag; that is not a toggle.)
ToggledInteractionCards ==
    {i \in DOMAIN cardOpen : checked /\ checked' /\ cardOpen'[i] # cardOpen[i]}

ToggledMedicineCards ==
    {i \in DOMAIN medExpanded :
        scanState = "results" /\ scanState' = "results" /\ medExpanded'[i] # medExpanded[i]}

ToggledVaultCards ==
    IF page = "vault" /\ page' = "vault" /\ vaultExpanded' # vaultExpanded
    THEN {id \in MountedVaultCards(search, tab) \cap MountedVaultCards(search', tab') :
             vaultExpanded'[id] # vaultExpanded[id]}
    ELSE {}

\* The state of the pages and of the router, without the cards' flags.
pageLevel ==
    <<page, drugs, input, showSuggestions, checked, multiState,
      search, compareIds, tab, scanState, dragOver, scanTimer>>

\* C18: a step that toggles a card toggles exactly one card, of one kind,
\* changes no other card's flag and leaves all page-level state unchanged.
C18_ToggleIsLocal ==
    [][ <<cardOpen, medExpanded, vaultExpanded>>' # <<cardOpen, medExpanded, vaultExpanded>> =>
        LET toggled == Cardinality(ToggledInteractionCards)
                       + Cardinality(ToggledMedicineCards)
                       + Cardinality(ToggledVaultCards)
        IN  toggled > 0 =>
                /\ toggled = 1
                /\ Cardinality({i \in DOMAIN cardOpen : cardOpen'[i] # cardOpen[i]})
                   + Cardinality({i \in DOMAIN medExpanded : medExpanded'[i] # medExpanded[i]})
                   + Cardinality({i \in DOMAIN vaultExpanded : vaultExpanded'[i] # vaultExpanded[i]})
                   = 1
                /\ pageLevel' = pageLevel ]_vars

\* The vault shows one expanded card among collapsed ones, with a compare
\* selection and a search text in place.
C18_Witness ==
    /\ page = "vault"
    /\ tab = "history"
    /\ search = "500mg"
    /\ Len(compareIds) = 1
    /\ Cardinality({id \in MountedVaultCards(search, tab) : vaultExpanded[id]}) = 1
    /\ Cardinality(MountedVaultCards(search, tab)) > 1

---------------------------------------------------------------------------
(* C19: the records of one result.                                         *)

\* The unordered pair of drugs a record is about, by the names displayed.
PairOfRecord(rec) == {rec.drug1, rec.drug2}

\* Every record of the list names two distinct drugs, and no two records
\* are about the same unordered pair.
DistinctPairs(recs) ==
    /\ \A k \in DOMAIN recs : Cardinality(PairOfRecord(recs[k])) = 2
    /\ \A j, k \in DOMAIN recs : j # k => PairOfRecord(recs[j]) # PairOfRecord(recs[k])

\* C19: in the result the drug checker displays and in the cross-prescription
\* result the multi-prescription page displays, every record names two
\* distinct drugs and no unordered pair has more than one record.
C19_RecordsAreDistinctPairs ==
    /\ (page = "drug-checker" /\ checked) => DistinctPairs(ShownRecords(drugs, checked))
    /\ (page = "multi-prescription" /\ multiState = "results")
          => DistinctPairs(ShownCross(multiState))

\* The drug checker displays a result with several records, two of which
\* share a drug.
C19_Witness ==
    /\ page = "drug-checker"
    /\ checked
    /\ \E j, k \in DOMAIN ShownRecords(drugs, checked) :
          /\ j # k
          /\ ShownRecords(drugs, checked)[j].drug2 = ShownRecords(drugs, checked)[k].drug2

---------------------------------------------------------------------------
(* C20: the vault search.                                                  *)

\* Text h contains text n when case is ignored: at some offset every
\* character of n equals the character of h there, up to case.
ContainsIgnoringCase(h, n) ==
    \E off \in 0..(Len(h) - Len(n)) :
        \A k \in 1..Len(n) :
            LowerChar(SubSeq(h, off + k, off + k)) = LowerChar(SubSeq(n, k, k))

\* A vault entry matches a search text by its doctor, a medicine or a tag.
EntryMatches(v, text) ==
    \/ ContainsIgnoringCase(v.doctor, text)
    \/ \E i \in DOMAIN v.medicines : ContainsIgnoringCase(v.medicines[i], text)
    \/ \E i \in DOMAIN v.tags : ContainsIgnoringCase(v.tags[i], text)

\* C20: the history tab lists exactly the VAULT_DATA entries that match the
\* search text, in array order; it lists all of them for the empty text; and
\* it shows "No prescriptions found" exactly when no entry matches.
C20_SearchShowsMatches ==
    tab = "history" =>
        /\ ShownVaultList(search, tab)
               = SelectSeq(VAULT_DATA, LAMBDA v : EntryMatches(v, search))
        /\ search = "" => ShownVaultList(search, tab) = VAULT_DATA
        /\ ShownNotFound(search, tab)
               <=> ~ \E k \in DOMAIN VAULT_DATA : EntryMatches(VAULT_DATA[k], search)

\* The history tab lists one entry for a doctor's name typed in upper case.
C20_Witness ==
    /\ page = "vault"
    /\ tab = "history"
    /\ search = "REDDY"
    /\ Len(ShownVaultList(search, tab)) = 1
    /\ ShownVaultList(search, tab)[1].doctor = "Dr. Ramesh Reddy"
    /\ ~ShownNotFound(search, tab)

---------------------------------------------------------------------------
(* C21 -- C23: the router.                                                 *)

\* The current location path.
LocationPath == pathname(hist[hidx])

\* C21: the page set is getPage of the location path and App renders
\* exactly one page component for it; a link click that navigates leaves
\* the location it left as the entry before the current one, and a back
\* step renders the page of that entry: the page shown before the click.
C21_PageFollowsLocation ==
    /\ [](/\ page = getPage(LocationPath)
          /\ Cardinality(RenderedPages(page)) = 1
          /\ RenderedPages(page) = {getPage(LocationPath)})
    /\ [][ /\ hist' # hist =>
                /\ hidx' > 1
                /\ SubSeq(hist', 1, hidx' - 1) = SubSeq(hist, 1, hidx)
                /\ RenderedPages(getPage(pathname(hist'[hidx' - 1])))
                      = RenderedPages(page)
           /\ (hist' = hist /\ hidx' = hidx - 1) =>
                RenderedPages(page') = {getPage(pathname(hist[hidx - 1]))} ]_vars

\* The user clicked two links to other pages and went back twice: the
\* location is the first of three entries whose pages differ from their
\* neighbours', and the page is that of the first.
C21_Witness ==
    /\ Len(hist) = 3
    /\ hidx = 1
    /\ RenderedPages(page) = {getPage(pathname(hist[1]))}
    /\ getPage(pathname(hist[1])) # getPage(pathname(hist[2]))
    /\ getPage(pathname(hist[2])) # getPage(pathname(hist[3]))

\* The five paths the claim names.
NamedPaths ==
    {"/scan", "/drug-checker", "/schedule", "/vault", "/multi-prescription"}

\* Paths that are none of the five: the root, the empty path, the /dosage of
\* the home page, and each of the five with a slash or a letter added or its
\* leading slash taken away or doubled, or in another case.
OtherPaths ==
    ( {"", "/", "/dosage", "/home", "/Scan", "/VAULT", "/Drug-Checker"}
      \cup {p \o "/" : p \in NamedPaths}
      \cup {p \o "s" : p \in NamedPaths}
      \cup {"/" \o p : p \in NamedPaths}
      \cup {Tail(p) : p \in NamedPaths}
      \cup {p \o q : p, q \in NamedPaths} ) \ NamedPaths

\* C22: getPage maps /scan, /drug-checker, /schedule, /vault and
\* /multi-prescription each to the page of its name, five different pages
\* none of which is home, and any other path to home; a click on the home
\* page's /dosage link makes /dosage the location and leaves the home page
\* rendered, with its state.
C22_DosageStaysHome ==
    /\ [](/\ \A p \in NamedPaths : getPage(p) = Tail(p)
          /\ Cardinality({getPage(p) : p \in NamedPaths}) = 5
          /\ "home" \notin {getPage(p) : p \in NamedPaths}
          /\ \A p \in OtherPaths : getPage(p) = "home")
    /\ [][ (page = "home" /\ hist' # hist /\ hist'[hidx'] = "/dosage") =>
               /\ page' = "home"
               /\ RenderedPages(page') = {"home"}
               /\ pathname(hist'[hidx']) = "/dosage"
               /\ hidx' = Len(hist')
               /\ homeVars' = homeVars ]_vars

\* The home page is rendered at /dosage, reached by a link from /.
C22_Witness ==
    /\ hist = <<"/", "/dosage">>
    /\ hidx = 2
    /\ page = "home"

\* Hrefs that start with "#" or "http".
LeftAloneHrefs ==
    {"#", "#top", "http", "https://example.org/", "http://example.org/scan",
     "httpx"}

\* Hrefs that start with neither.
NavigatingHrefs ==
    {"/", "/scan", "/drug-checker", "/schedule", "/vault",
     "/multi-prescription", "/dosage", "/https", "/a#b", "ftp://example.org/",
     "h", "htt", "/#", " #", "HTTP://example.org/"}

\* The page and the history as they are.
RouterNow == [page |-> page, hist |-> hist, hidx |-> hidx]

\* C23: in every state, the handler leaves the page and the history as they
\* are for a click in a link whose href starts with "#" or "http", and for
\* no other href; for each other href a link has, it makes the href the
\* current, last history entry after the entries up to the old current one
\* and sets the page to getPage of it.  As steps: a click in a "#" link
\* leaves the page rendered, every page's state, the location path and the
\* entries up to the current one as they are, the one change being the
\* browser's own entry for the fragment (none when the location has that
\* fragment already); a click in any other link has the handler's result;
\* and a step that is neither a link click nor a back or forward step (a
\* click on a button or a drop zone, outside every link, or a timer) leaves
\* the page and the history as they are.
C23_OnlyInternalLinksNavigate ==
    /\ [](/\ \A href \in LeftAloneHrefs :
                returnsEarly(href) /\ handleClickResult(href) = RouterNow
          /\ \A href \in NavigatingHrefs : ~returnsEarly(href)
          /\ \A href \in RenderedHrefs \ {"#"} :
                LET r == handleClickResult(href)
                IN  /\ r # RouterNow
                    /\ r.hidx = hidx + 1
                    /\ r.hidx = Len(r.hist)
                    /\ r.hist[r.hidx] = href
                    /\ SubSeq(r.hist, 1, hidx) = SubSeq(hist, 1, hidx)
                    /\ r.page = getPage(href))
    /\ [][ routerVars' # routerVars =>
             /\ clickLink \/ goBack \/ goForward
             /\ \A href \in ClickedHrefs(page, scanState) :
                   handleClick(href) =>
                       IF startsWith(href, "#")
                       THEN /\ page' = page
                            /\ <<checkerVars, homeVars, multiVars, vaultVars, scanVars>>'
                                  = <<checkerVars, homeVars, multiVars, vaultVars, scanVars>>
                            /\ pathname(hist'[hidx']) = pathname(hist[hidx])
                            /\ hidx' > 1
                            /\ SubSeq(hist', 1, hidx' - 1) = SubSeq(hist, 1, hidx)
                            /\ hist'[hidx'] = withoutFragment(hist[hidx]) \o href
                       ELSE /\ hist'[hidx'] = href
                            /\ hidx' = Len(hist')
                            /\ page' = getPage(href)
                            /\ [page |-> page', hist |-> hist', hidx |-> hidx']
                                  = handleClickResult(href) ]_vars

\* A link click has pushed /vault and set the page, and a click in a "#"
\* link of the vault page has followed: the browser's fragment entry is the
\* current one and the vault is still rendered.
C23_Witness ==
    /\ hist = <<"/", "/vault", "/vault#">>
    /\ hidx = 3
    /\ page = "vault"

---------------------------------------------------------------------------
(* C24, C25: the vault's compare selection.                                *)

\* The ids of the vault entries.
VaultIds == {VAULT_DATA[k].id : k \in DOMAIN VAULT_DATA}

\* C24: the compare selection holds at most 2 ids, no id twice, and only
\* ids of vault entries.
C24_CompareSelectionBounded ==
    /\ Len(compareIds) <= 2
    /\ \A i, j \in DOMAIN compareIds : i # j => compareIds[i] # compareIds[j]
    /\ \A i \in DOMAIN compareIds : compareIds[i] \in VaultIds

\* Two entries are selected, after a search that hides one of them.
C24_Witness ==
    /\ page = "vault"
    /\ Len(compareIds) = 2
    /\ \E i \in DOMAIN compareIds : compareIds[i] \notin MountedVaultCards(search, tab)

\* The selection without one id, in the same order.
RECURSIVE Without(_, _)
Without(ids, id) ==
    IF ids = << >> THEN << >>
    ELSE IF Head(ids) = id THEN Without(Tail(ids), id)
    ELSE <<Head(ids)>> \o Without(Tail(ids), id)

\* What the claim says toggleCompare(id) stores.
ClaimedToggle(ids, id) ==
    IF \E i \in DOMAIN ids : ids[i] = id
    THEN Without(ids, id)
    ELSE IF Len(ids) < 2 THEN ids \o <<id>> ELSE ids

\* C25: for every vault entry, toggleCompare(id) in the current state
\* stores the selection without exactly that id if it was selected, the
\* selection with the id appended if it was not and fewer than 2 were, and
\* the same selection if 2 were.  A toggle step is a step to that list for
\* a rendered card, and it never adds a third id.  A step that changes the
\* search text or the tab leaves the selection as it is, so hidden entries
\* stay selected.
C25_ToggleCompareEffect ==
    /\ [](\A id \in VaultIds :
            ToggleCompareList(compareIds, id) = ClaimedToggle(compareIds, id))
    /\ [][ /\ toggleCompare =>
                /\ \E id \in MountedVaultCards(search, tab) :
                      compareIds' = ClaimedToggle(compareIds, id)
                /\ Len(compareIds) = 2 =>
                      \A i \in DOMAIN compareIds' :
                         \E j \in DOMAIN compareIds : compareIds'[i] = compareIds[j]
           /\ (search' # search \/ tab' # tab) => compareIds' = compareIds ]_vars

\* Two entries are selected and a third, unselected one is rendered: its
\* Compare button is there to be clicked.
C25_Witness ==
    /\ page = "vault"
    /\ Len(compareIds) = 2
    /\ \E id \in MountedVaultCards(search, tab) :
          \A i \in DOMAIN compareIds : compareIds[i] # id
    /\ \E i \in DOMAIN compareIds : compareIds[i] \notin MountedVaultCards(search, tab)

---------------------------------------------------------------------------
(* C26, C27: the scan page's cycle and its timers.                         *)

\* The timeouts of handleScan that have not fired yet, whichever ScanPage
\* started them.
PendingScanTimers == staleTimers + (IF scanTimer THEN 1 ELSE 0)

\* C26: while a ScanPage stays mounted its state moves only upload ->
\* scanning (the scan button, which starts the timer), scanning -> results
\* (the timer) and results -> upload ("Scan Again"); a started scan
\* eventually shows its results unless the page is left; and at most one
\* scan timer is pending at any time.
C26_ScanCycle ==
    /\ [][ (page = "scan" /\ page' = "scan" /\ scanState' # scanState) =>
              \/ scanState = "upload" /\ scanState' = "scanning"
                    /\ ~scanTimer /\ scanTimer'
              \/ scanState = "scanning" /\ scanState' = "results"
                    /\ scanTimer /\ ~scanTimer'
              \/ scanState = "results" /\ scanState' = "upload"
                    /\ scanTimer' = scanTimer ]_vars
    /\ (scanState = "scanning" ~> (scanState = "results" \/ page # "scan"))
    /\ [](PendingScanTimers <= 1)

\* C27: the mounted ScanPage is scanning exactly while a timer of its own
\* is pending, however many timers of unmounted ScanPages are; a step that
\* mounts the scan page leaves it in upload with no timer of its own and
\* the timers left behind still pending; the timer of an unmounted
\* ScanPage, when it fires, changes neither the page shown nor the state of
\* the mounted ScanPage; and a mounted scan page leaves upload only by its
\* own scan button, which starts its own timer and takes it to scanning.
C27_StaleTimerHarmless ==
    /\ []((scanState = "scanning") = scanTimer)
    /\ [][ /\ (page # "scan" /\ page' = "scan") =>
                 scanState' = "upload" /\ ~scanTimer' /\ staleTimers' = staleTimers
           /\ staleTimers' < staleTimers =>
                 /\ routerVars' = routerVars
                 /\ <<scanState, dragOver, scanTimer, medExpanded>>'
                       = <<scanState, dragOver, scanTimer, medExpanded>>
           /\ (page = "scan" /\ page' = "scan"
                  /\ scanState = "upload" /\ scanState' # "upload") =>
                 /\ scanState' = "scanning"
                 /\ ~scanTimer /\ scanTimer'
                 /\ staleTimers' = staleTimers ]_vars

\* The user has left a scanning ScanPage and come back: the new page is in
\* upload while the old page's timer is still pending.
C27_Witness ==
    /\ page = "scan"
    /\ scanState = "upload"
    /\ ~scanTimer
    /\ staleTimers > 0
    /\ Len(hist) > 1

---------------------------------------------------------------------------
(* C28: the suggestion list of the drug checker.                           *)

\* The suggestion list of the current state (main.jsx:133-135).
CurrentSuggestions == suggestions(input, drugs)

\* C28: no suggestion is a drug of the list (drugs are identified by their
\* normalized name); the suggestion list is empty while the input is empty;
\* every suggestion is a name of the database that contains the input
\* case-insensitively; and every addDrug leaves the input empty and the
\* suggestions hidden.  The code violates the first part: it excludes a
\* listed drug only when the strings are equal.
C28_SuggestionsExcludeListed ==
    /\ [](\A i \in DOMAIN CurrentSuggestions :
            /\ Normalized(CurrentSuggestions[i]) \notin NormalizedIds(drugs)
            /\ \E k \in DOMAIN DRUG_DATABASE :
                  DRUG_DATABASE[k] = CurrentSuggestions[i]
            /\ strIncludes(toLowerCase(CurrentSuggestions[i]), toLowerCase(input)))
    /\ [](input = "" => CurrentSuggestions = << >>)
    /\ [][(onKeyDownEnter \/ clickSuggestion) =>
              input' = "" /\ ~showSuggestions']_vars

---------------------------------------------------------------------------
(* C29: the StatCard counter.                                              *)

\* C29: the count never decreases and never exceeds the target; while the
\* interval timer runs the count is below the target, and once the count
\* is the target the timer is cleared; from then on neither changes; and
\* the count eventually is the target, with the timer cleared, for good.
C29_CounterReachesTarget ==
    /\ [][statCount' >= statCount]_vars
    /\ [](statCount <= statTarget)
    /\ [](statTarget > 0 /\ statCount = statTarget => ~statTimer)
    /\ [][~statTimer => statCount' = statCount /\ ~statTimer']_vars
    /\ <>[](statCount = statTarget /\ ~statTimer)

\* The counter of the "800M+" card has finished: 113 runs of the callback,
\* the count at 800 and the timer cleared.
C29_Witness ==
    /\ page = "home"
    /\ statTarget = 800
    /\ statTicks = 113
    /\ statCount = 800
    /\ ~statTimer

=============================================================================
